---- MODULE Spec2Model ----
(***************************************************************************)
(* const_assoc: an array-backed associative container keyed by enums with  *)
(* a primitive representation (const-assoc/src/lib.rs, src/utils.rs).      *)
(*                                                                         *)
(* Integers of the program are modelled by their memory: a value of an     *)
(* unsigned type of w bits is the little-endian sequence of its w/8 bytes, *)
(* so that transmute_copy and the `as usize` casts act on what they act on *)
(* in the program, and a truncation is observable.                         *)
(***************************************************************************)
EXTENDS Integers, Sequences, FiniteSets, TLC

VARIABLES
    ptrWidth,    \* cfg(target_pointer_width): 16, 32 or 64
    discTy,      \* the key type's Discriminant type (PrimitiveEnumLayout)
    variants,    \* the discriminants of the key type's named values
    pc,          \* where the program is: start, macro steps, uninit, live,
                 \* consumed, panics, aborted, diverged
    keys,        \* assoc!: what the $key expressions gave for has_duplicate_keys
    next,        \* assoc!: position of the next `*map.const_get_mut($key) = ...`
    storage,     \* Assoc::storage, one entry per slot (index i is storage[i+1])
    builtBy,     \* which constructor produced the map
    initValues,  \* history: the slot contents the constructor was given
    lastWrite,   \* history: per slot, the last value written through a &mut V
    nwrites,     \* history: per slot, the number of writes made by assoc!
    ret,         \* the last operation and what it returned
    conv         \* into_usize taken alone: its argument type, argument and result

vars == <<ptrWidth, discTy, variants, pc, keys, next, storage, builtBy,
          initValues, lastWrite, nwrites, ret, conv>>

----------------------------------------------------------------------------
(* Bounds of the model *)

\* Greatest discriminant a key type of the model may have.
MaxDisc == 2

----------------------------------------------------------------------------
(* Values, markers *)

\* The values V of the model; DEFAULT is V's ConstDefault::DEFAULT.
Values == {"a", "b"}
DEFAULT == "a"
\* A MaybeUninit<V> slot that was never written.
Uninit == "uninit"
\* What a slot of an Assoc<K, MaybeUninit<V>> can be assigned.
MaybeUninitValues == Values \cup {Uninit}
\* What reading uninitialized or out-of-bounds memory may give besides a value.
Garbage == "garbage"
\* An access went through and returned.
Returned == "returned"
\* Undefined behaviour that returns nothing: the process is aborted (the
\* precondition check of a build with debug assertions), or control leaves the
\* code of the program (a build that optimizes on the access being in bounds).
Abort == "abort"
Diverge == "diverge"
UBOutcomes == {Abort, Diverge}
\* lastWrite: no write went through a &mut V to the slot.
NoWrite == "nowrite"

\* Bytes the discriminant arguments of into_usize are made of in the model.
ByteSamples == {0, 1, 255}

----------------------------------------------------------------------------
(* utils.rs: the reinterpretation layer and the conversion to usize *)

PointerWidths == {16, 32, 64}

\* The primitive unsigned types a discriminant may be declared with.
UnsignedTypes == {"U8", "U16", "U32", "U64", "USize"}

\* size_of::<T>() in bytes on a platform whose pointers have pw bits.
SizeOf(ty, pw) ==
    CASE ty = "U8"    -> 1
      [] ty = "U16"   -> 2
      [] ty = "U32"   -> 4
      [] ty = "U64"   -> 8
      [] ty = "USize" -> pw \div 8

\* A variant of IntoUSizeWitness: the 64-bit list of witnesses on every platform.
IntoUSizeWitness_same_everywhere(pw) == {"U8", "U16", "U32", "U64", "USize"}

\* enum IntoUSizeWitness: the types a witness exists for, per platform.
IntoUSizeWitness(pw) ==
    CASE pw = 16 -> {"U8", "U16", "USize"}
      [] pw = 32 -> {"U8", "U16", "U32", "USize"}
      [] pw = 64 -> {"U8", "U16", "U32", "U64", "USize"}

\* trait ConstIntoUSize: implemented exactly for the types with a witness.
ConstIntoUSize(ty, pw) == ty \in IntoUSizeWitness(pw)

\* `value as usize` between unsigned integers: the low bytes are kept, a wider
\* target is filled with zero bytes, a narrower one drops the high bytes.
AsUSize(value, pw) ==
    [i \in 1..(pw \div 8) |-> IF i <= Len(value) THEN value[i] ELSE 0]

\* A variant of into_usize: every arm casts through u8 (`as u8 as usize`).
into_usize_through_u8(value, ty, pw) == AsUSize(SubSeq(value, 1, 1), pw)

\* into_usize: one match arm per witness, each a cast (or the identity for usize).
into_usize(value, ty, pw) ==
    CASE ty = "U8"    -> AsUSize(value, pw)
      [] ty = "U16"   -> AsUSize(value, pw)
      [] ty = "U32"   -> AsUSize(value, pw)
      [] ty = "U64"   -> AsUSize(value, pw)
      [] ty = "USize" -> value

\* mem::transmute_copy::<Src, Dst>(&src): reads size_of::<Dst>() bytes at src.
transmute_copy_safe(src, dstSize) == SubSeq(src, 1, dstSize)

transmute_safe(src, dstSize) == transmute_copy_safe(src, dstSize)

----------------------------------------------------------------------------
(* Integers as bytes *)

\* The bytes of the number d in n bytes, little-endian.
RECURSIVE ToBytes(_, _)
ToBytes(d, n) == IF n = 0 THEN <<>> ELSE <<d % 256>> \o ToBytes(d \div 256, n - 1)

\* Numbers at or above Huge are all represented by Huge: they are only ever
\* compared with array lengths, which are far below it.
Huge == 256 * 256

\* The number a byte sequence holds (saturating at Huge).
RECURSIVE ToNat(_)
ToNat(bytes) ==
    IF bytes = <<>> THEN 0
    ELSE LET hi == ToNat(Tail(bytes))
         IN  IF hi >= Huge \div 256 THEN Huge ELSE hi * 256 + Head(bytes)

\* Two byte sequences, possibly of different widths, hold the same number.
SameValue(x, y) ==
    \A i \in 1..(IF Len(x) > Len(y) THEN Len(x) ELSE Len(y)) :
        (IF i <= Len(x) THEN x[i] ELSE 0) = (IF i <= Len(y) THEN y[i] ELSE 0)

----------------------------------------------------------------------------
(* lib.rs: key types *)

Max(S) == CHOOSE x \in S : \A y \in S : y <= x

\* PrimitiveEnumLayout<Discriminant, MAX_VARIANTS>: MAX_VARIANTS is the greatest
\* discriminant among the enum's variants plus 1 (0 for an enum without variants).
MaxVariants(vs) == IF vs = {} THEN 0 ELSE Max(vs) + 1

\* A value of a #[repr(Discriminant)] enum in memory: its discriminant, stored
\* as a Discriminant.
EnumValue(d, ty, pw) == ToBytes(d, SizeOf(ty, pw))

\* key_impl_to_index: EnumKeyImpl -> Repr (the discriminant) -> usize.
key_impl_to_index(key_impl, ty, pw) ==
    LET repr == transmute_safe(key_impl, SizeOf(ty, pw))
    IN  into_usize(repr, ty, pw)

\* key_to_index: K -> K::Impl (repr(transparent) over K) -> usize.
key_to_index(key, ty, pw) ==
    LET key_impl == transmute_safe(key, SizeOf(ty, pw))
    IN  key_impl_to_index(key_impl, ty, pw)

----------------------------------------------------------------------------
(* core: arrays and slices *)

\* <[T]>::get_unchecked(idx): out of bounds is undefined behaviour: any value
\* or garbage is returned, or nothing is.
get_unchecked(s, idx) ==
    LET n == ToNat(idx)
    IN  IF n < Len(s) THEN {s[n + 1]} ELSE Values \cup {Garbage} \cup UBOutcomes

\* Where the program is after an unchecked access of outcome o made at `here`.
After(o, here) ==
    IF o = Abort THEN "aborted" ELSE IF o = Diverge THEN "diverged" ELSE here

\* What the caller receives from an unchecked access of outcome o.
Received(o) == IF o \in UBOutcomes THEN <<>> ELSE <<o>>

\* Whether the bounds check of `s[idx]` passes.
InBounds(s, idx) == ToNat(idx) < Len(s)

\* A variant of IterFrom: the elements are yielded from the last one downwards.
IterFrom_reversed(s, i) == [k \in 1..(Len(s) - i) |-> s[Len(s) - k + 1]]

\* <[T]>::iter(): yields the elements from index 0 upwards.
RECURSIVE IterFrom(_, _)
IterFrom(s, i) == IF i >= Len(s) THEN <<>> ELSE <<s[i + 1]>> \o IterFrom(s, i + 1)

----------------------------------------------------------------------------
(* lib.rs: Assoc<K, V> for the key type of the state *)

\* K::Impl::Storage<V> = [V; MAX_VARIANTS]: the N of every impl block.
N == MaxVariants(variants)

\* The values the key type K can hold.
Keys == {EnumValue(d, discTy, ptrWidth) : d \in variants}

index_of(key) == key_to_index(key, discTy, ptrWidth)

\* Assoc::LEN
LEN == N

\* Assoc::from_values
from_values(values) == values

\* A variant of len: the number of named values of the key type.
len_counts_variants == Cardinality(variants)

\* Assoc::len
len == LEN

\* Assoc::is_empty
is_empty == len = 0

\* Assoc::get: the outcomes of self.storage.get_unchecked(idx).
get(s, key) == LET idx == index_of(key) IN get_unchecked(s, idx)

\* A variant of const_get: the slot after the key's.
const_get_off_by_one(s, key) ==
    LET idx == index_of(key)
    IN  IF ToNat(idx) + 1 < Len(s) THEN [ok |-> TRUE, val |-> s[ToNat(idx) + 2]]
        ELSE [ok |-> FALSE, val |-> Garbage]

\* Assoc::const_get: &self.storage[idx], which panics out of bounds.
const_get(s, key) ==
    LET n == ToNat(index_of(key))
    IN  IF n < Len(s) THEN [ok |-> TRUE, val |-> s[n + 1]]
        ELSE [ok |-> FALSE, val |-> Garbage]

\* A variant of get_mut: the reference is to the first slot, whatever the key.
get_mut_first_slot(s, key, v) ==
    {[out |-> Returned, storage |-> IF Len(s) > 0 THEN [s EXCEPT ![1] = v] ELSE s]}

\* Assoc::get_mut followed by a write of v through the returned &mut V: the
\* outcome and the storage afterwards. Out of bounds get_unchecked_mut is
\* undefined behaviour: the write lands anywhere (each slot is left as it was,
\* a never written one included, or holds any value or garbage), the process is
\* aborted before it, or control leaves the code of the program.
get_mut(s, key, v) ==
    LET idx == index_of(key)
    IN  IF ToNat(idx) < Len(s)
        THEN {[out |-> Returned, storage |-> [s EXCEPT ![ToNat(idx) + 1] = v]]}
        ELSE {[out |-> o, storage |-> t] :
                 o \in {Returned, Diverge},
                 t \in {u \in [1..Len(s) -> Values \cup {Garbage, Uninit}] :
                           \A i \in 1..Len(s) : u[i] = Uninit => s[i] = Uninit}}
             \cup {[out |-> Abort, storage |-> s]}

\* Assoc::const_get_mut followed by a write of v through the returned &mut V.
const_get_mut(s, key, v) ==
    LET idx == index_of(key)
    IN  IF InBounds(s, idx)
        THEN [ok |-> TRUE, storage |-> [s EXCEPT ![ToNat(idx) + 1] = v]]
        ELSE [ok |-> FALSE, storage |-> s]

\* Index::index
index(s, key) == get(s, key)

\* IndexMut::index_mut followed by a write of v.
index_mut(s, key, v) == get_mut(s, key, v)

\* Assoc::values: self.storage.iter()
values(s) == IterFrom(s, 0)

\* Assoc::values_mut: self.storage.iter_mut(), the slots it yields references to.
values_mut(s) == IterFrom(s, 0)

\* Assoc::into_values: self.storage.into_iter()
into_values(s) == IterFrom(s, 0)

\* Assoc::new_uninit: N slots, none of them written.
new_uninit == [i \in 1..N |-> Uninit]

\* The slots of s that hold no value.
Unwritten(s) == {i \in 1..Len(s) : s[i] = Uninit}

\* utils::assume_init_array: every MaybeUninit<V> read as a V; reading a slot
\* that was never written is undefined behaviour, here any value or garbage.
assume_init_array(s) ==
    {t \in [1..Len(s) -> Values \cup {Garbage}] :
        \A i \in 1..Len(s) : s[i] # Uninit => t[i] = s[i]}

\* Assoc::assume_init
assume_init(s) == assume_init_array(s)

\* A variant of the inner loop: `while j < N - 1`.
RECURSIVE has_duplicate_keys_inner_short(_, _, _)
has_duplicate_keys_inner_short(ks, i, j) ==
    IF j < Len(ks) - 1
    THEN IF index_of(ks[i + 1]) = index_of(ks[j + 1]) THEN TRUE
         ELSE has_duplicate_keys_inner_short(ks, i, j + 1)
    ELSE FALSE

\* assoc_macro_private::has_duplicate_keys: the inner loop, from j.
RECURSIVE has_duplicate_keys_inner(_, _, _)
has_duplicate_keys_inner(ks, i, j) ==
    IF j < Len(ks)
    THEN IF index_of(ks[i + 1]) = index_of(ks[j + 1]) THEN TRUE
         ELSE has_duplicate_keys_inner(ks, i, j + 1)
    ELSE FALSE

\* A variant of the outer loop: `let mut j = i + 2`.
RECURSIVE has_duplicate_keys_outer_skip(_, _)
has_duplicate_keys_outer_skip(ks, i) ==
    IF i < Len(ks)
    THEN IF has_duplicate_keys_inner(ks, i, i + 2) THEN TRUE
         ELSE has_duplicate_keys_outer_skip(ks, i + 1)
    ELSE FALSE

\* assoc_macro_private::has_duplicate_keys: the outer loop, from i.
RECURSIVE has_duplicate_keys_outer(_, _)
has_duplicate_keys_outer(ks, i) ==
    IF i < Len(ks)
    THEN IF has_duplicate_keys_inner(ks, i, i + 1) THEN TRUE
         ELSE has_duplicate_keys_outer(ks, i + 1)
    ELSE FALSE

has_duplicate_keys(ks) == has_duplicate_keys_outer(ks, 0)

----------------------------------------------------------------------------
(* The state machine *)

Ret(op, out, n, flag) == [op |-> op, out |-> out, n |-> n, flag |-> flag]

NoConv == [state |-> "none", ty |-> "U8", arg |-> <<>>, res |-> <<>>]

KeyType == <<ptrWidth, discTy, variants>>
Literal == <<keys, next, nwrites>>
History == <<initValues, lastWrite>>

\* A key type K: PrimitiveEnum whose Discriminant has a witness on the platform
\* (KeyImpl::Repr: ConstIntoUSize), and no map yet.
Init ==
    /\ ptrWidth \in PointerWidths
    /\ discTy \in IntoUSizeWitness(ptrWidth)
    /\ variants \in SUBSET (0..MaxDisc)
    /\ pc = "start"
    /\ keys = <<>>
    /\ next = 0
    /\ storage = <<>>
    /\ builtBy = "none"
    /\ initValues = <<>>
    /\ lastWrite = <<>>
    /\ nwrites = <<>>
    /\ ret = Ret("none", <<>>, 0, FALSE)
    /\ conv = NoConv

\* let map = Assoc::from_values(vs);
FromValues(vs) ==
    /\ pc = "start"
    /\ storage' = from_values(vs)
    /\ pc' = "live"
    /\ builtBy' = "from_values"
    /\ ret' = Ret("from_values", vs, 0, FALSE)
    /\ UNCHANGED <<KeyType, Literal, conv>>

\* let map = <Assoc<K, V> as ConstDefault>::DEFAULT;  the storage is the DEFAULT
\* of [V; N], N copies of V::DEFAULT.
ConstDefault ==
    /\ pc = "start"
    /\ storage' = [i \in 1..N |-> DEFAULT]
    /\ pc' = "live"
    /\ builtBy' = "const_default"
    /\ ret' = Ret("const_default", <<>>, 0, FALSE)
    /\ UNCHANGED <<KeyType, Literal, History, conv>>

\* let map = <Assoc<K, V> as Default>::default();  the storage is the default()
\* of [V; N], made of what N calls of V::default() return (ds), which V::DEFAULT
\* has no part in.
Default(ds) ==
    /\ pc = "start"
    /\ storage' = ds
    /\ pc' = "live"
    /\ builtBy' = "default"
    /\ ret' = Ret("default", <<>>, 0, FALSE)
    /\ UNCHANGED <<KeyType, Literal, History, conv>>

\* assoc! { $key => $value, ... }: the first evaluation of the $value and $key
\* expressions (vs, of which PhantomArray keeps the type only, and ks), the
\* duplicate check and its panic. The signature of has_duplicate_keys only
\* accepts N keys and N values, and the key type is inferred from a pair.
MacroCheck(ks, vs) ==
    /\ pc = "start"
    /\ Len(ks) > 0
    /\ keys' = ks
    /\ LET dup == has_duplicate_keys(ks)
       IN  /\ pc' = IF dup THEN "panic_duplicate" ELSE "macro_new"
           /\ ret' = Ret("has_duplicate_keys", vs, 0, dup)
    /\ UNCHANGED <<KeyType, next, nwrites, storage, builtBy, History, conv>>

\* let mut map = Assoc::new_uninit();  in assoc!
MacroNewUninit ==
    /\ pc = "macro_new"
    /\ storage' = new_uninit
    /\ nwrites' = [i \in 1..N |-> 0]
    /\ next' = 1
    /\ pc' = "macro_assign"
    /\ ret' = Ret("new_uninit", <<>>, 0, FALSE)
    /\ UNCHANGED <<KeyType, keys, builtBy, History, conv>>

\* *map.const_get_mut($key) = MaybeUninit::new($value);  for the next pair. The
\* two expressions are evaluated here for the second time: key and v are what
\* they give now, which for expressions with side effects need not be what the
\* duplicate check was given.
MacroAssign(key, v) ==
    /\ pc = "macro_assign"
    /\ next <= Len(keys)
    /\ LET r == const_get_mut(storage, key, v)
           i == ToNat(index_of(key)) + 1
       IN  /\ storage' = r.storage
           /\ pc' = IF r.ok THEN "macro_assign" ELSE "panic_bounds"
           /\ nwrites' = IF r.ok THEN [nwrites EXCEPT ![i] = @ + 1] ELSE nwrites
    /\ next' = next + 1
    /\ ret' = Ret("macro_assign", <<v>>, 0, FALSE)
    /\ UNCHANGED <<KeyType, keys, builtBy, History, conv>>

\* unsafe { map.assume_init() }  at the end of assoc!, whose block and local
\* variables end with it. ret.n is the number of slots without a value.
MacroAssumeInit ==
    /\ pc = "macro_assign"
    /\ next = Len(keys) + 1
    /\ \E s \in assume_init(storage) : storage' = s
    /\ pc' = "live"
    /\ builtBy' = "assoc"
    /\ keys' = <<>>
    /\ next' = 0
    /\ nwrites' = <<>>
    /\ ret' = Ret("assume_init", <<>>, Cardinality(Unwritten(storage)), FALSE)
    /\ UNCHANGED <<KeyType, History, conv>>

\* let mut map = Assoc::<K, V>::new_uninit();  called by the program itself
NewUninit ==
    /\ pc = "start"
    /\ storage' = new_uninit
    /\ pc' = "uninit"
    /\ ret' = Ret("new_uninit", <<>>, 0, FALSE)
    /\ UNCHANGED <<KeyType, Literal, builtBy, History, conv>>

\* let map = unsafe { map.assume_init() };  called by the program itself, with
\* whatever slots it has written. ret.n is the number of slots without a value.
AssumeInit ==
    /\ pc = "uninit"
    /\ \E s \in assume_init(storage) : storage' = s
    /\ pc' = "live"
    /\ builtBy' = "manual"
    /\ ret' = Ret("assume_init", <<>>, Cardinality(Unwritten(storage)), FALSE)
    /\ UNCHANGED <<KeyType, Literal, History, conv>>

\* The program holds a map: an Assoc<K, V>, or an Assoc<K, MaybeUninit<V>> from
\* new_uninit, which has the same methods.
HasMap == pc \in {"live", "uninit"}

\* What can be assigned to a slot of the map held.
SlotValues == IF pc = "uninit" THEN MaybeUninitValues ELSE Values

\* What no operation on a map touches.
Frame == UNCHANGED <<KeyType, Literal, builtBy, conv>>

\* A variant of Get: the value is moved out of the slot, which is left with
\* V::DEFAULT (core::mem::take).
Get_taking(key) ==
    /\ HasMap
    /\ \E o \in get(storage, key) :
        /\ ret' = Ret("get", Received(o), 0, FALSE)
        /\ pc' = After(o, pc)
    /\ storage' = [storage EXCEPT ![ToNat(index_of(key)) + 1] = DEFAULT]
    /\ Frame

\* map.get(key)
Get(key) ==
    /\ HasMap
    /\ \E o \in get(storage, key) :
        /\ ret' = Ret("get", Received(o), 0, FALSE)
        /\ pc' = After(o, pc)
    /\ UNCHANGED storage
    /\ Frame

\* map.const_get(key)
ConstGet(key) ==
    /\ HasMap
    /\ LET r == const_get(storage, key)
       IN  /\ pc' = IF r.ok THEN pc ELSE "panic_bounds"
           /\ ret' = Ret("const_get", IF r.ok THEN <<r.val>> ELSE <<>>, 0, FALSE)
    /\ UNCHANGED storage
    /\ Frame

\* map[key]
IndexOp(key) ==
    /\ HasMap
    /\ \E o \in index(storage, key) :
        /\ ret' = Ret("index", Received(o), 0, FALSE)
        /\ pc' = After(o, pc)
    /\ UNCHANGED storage
    /\ Frame

\* *map.get_mut(key) = v
GetMut(key, v) ==
    /\ HasMap
    /\ \E r \in get_mut(storage, key, v) :
        /\ storage' = r.storage
        /\ pc' = After(r.out, pc)
    /\ ret' = Ret("get_mut", <<v>>, 0, FALSE)
    /\ Frame

\* *map.const_get_mut(key) = v
ConstGetMut(key, v) ==
    /\ HasMap
    /\ LET r == const_get_mut(storage, key, v)
       IN  /\ storage' = r.storage
           /\ pc' = IF r.ok THEN pc ELSE "panic_bounds"
    /\ ret' = Ret("const_get_mut", <<v>>, 0, FALSE)
    /\ Frame

\* map[key] = v
IndexMutOp(key, v) ==
    /\ HasMap
    /\ \E r \in index_mut(storage, key, v) :
        /\ storage' = r.storage
        /\ pc' = After(r.out, pc)
    /\ ret' = Ret("index_mut", <<v>>, 0, FALSE)
    /\ Frame

\* map.len()
LenOp ==
    /\ HasMap
    /\ ret' = Ret("len", <<>>, len, FALSE)
    /\ UNCHANGED <<pc, storage>>
    /\ Frame

\* map.is_empty()
IsEmptyOp ==
    /\ HasMap
    /\ ret' = Ret("is_empty", <<>>, 0, is_empty)
    /\ UNCHANGED <<pc, storage>>
    /\ Frame

\* map.values().collect()
ValuesOp ==
    /\ HasMap
    /\ ret' = Ret("values", values(storage), 0, FALSE)
    /\ UNCHANGED <<pc, storage>>
    /\ Frame

\* for slot in map.values_mut() { ... }: every slot is yielded, and the caller
\* writes v through the reference to slot i - 1 (i = 0: through none of them).
ValuesMutOp(i, v) ==
    /\ HasMap
    /\ ret' = Ret("values_mut", values_mut(storage), 0, FALSE)
    /\ storage' = IF i = 0 THEN storage ELSE [storage EXCEPT ![i] = v]
    /\ UNCHANGED pc
    /\ Frame

\* map.into_values().collect(): the map is moved into the iterator.
IntoValuesOp ==
    /\ HasMap
    /\ ret' = Ret("into_values", into_values(storage), 0, FALSE)
    /\ pc' = "consumed"
    /\ storage' = <<>>
    /\ Frame

----------------------------------------------------------------------------
(* Spec: a map built by from_values or ConstDefault, under every operation *)

DoFromValues ==
    /\ pc = "start"
    /\ \E vs \in [1..N -> Values] : FromValues(vs) /\ UNCHANGED History
DoConstDefault == ConstDefault
DoGet == \E key \in Keys : Get(key) /\ UNCHANGED History
DoConstGet == \E key \in Keys : ConstGet(key) /\ UNCHANGED History
DoIndex == \E key \in Keys : IndexOp(key) /\ UNCHANGED History
DoGetMut ==
    /\ HasMap
    /\ \E key \in Keys, v \in SlotValues : GetMut(key, v) /\ UNCHANGED History
DoConstGetMut ==
    /\ HasMap
    /\ \E key \in Keys, v \in SlotValues : ConstGetMut(key, v) /\ UNCHANGED History
DoIndexMut ==
    /\ HasMap
    /\ \E key \in Keys, v \in SlotValues : IndexMutOp(key, v) /\ UNCHANGED History
DoLen == LenOp /\ UNCHANGED History
DoIsEmpty == IsEmptyOp /\ UNCHANGED History
DoValues == ValuesOp /\ UNCHANGED History
DoValuesMut ==
    /\ HasMap
    /\ \E i \in 0..N, v \in SlotValues : ValuesMutOp(i, v) /\ UNCHANGED History
DoIntoValues == IntoValuesOp /\ UNCHANGED History

Next ==
    \/ DoFromValues
    \/ DoConstDefault
    \/ DoGet
    \/ DoConstGet
    \/ DoIndex
    \/ DoGetMut
    \/ DoConstGetMut
    \/ DoIndexMut
    \/ DoLen
    \/ DoIsEmpty
    \/ DoValues
    \/ DoValuesMut
    \/ DoIntoValues

Spec == Init /\ [][Next]_vars

----------------------------------------------------------------------------
(* SpecLit: every way to a map (assoc!, from_values, ConstDefault, Default, *)
(* new_uninit with assume_init called by the program), with reads and       *)
(* writes                                                                   *)

\* An assoc! without a pair does not type-check: nothing tells the key type.
DoMacroCheck ==
    /\ pc = "start"
    /\ N > 0
    /\ \E ks \in [1..N -> Keys], vs \in [1..N -> Values] : MacroCheck(ks, vs)

DoDefault ==
    /\ pc = "start"
    /\ \E ds \in [1..N -> Values] : Default(ds)

DoMacroAssign ==
    /\ pc = "macro_assign"
    /\ next <= Len(keys)
    /\ \E key \in Keys, v \in Values : MacroAssign(key, v)

\* The program fills the map it has from new_uninit: by key, or slot by slot.
DoUninitConstGetMut == pc = "uninit" /\ DoConstGetMut
DoUninitGetMut == pc = "uninit" /\ DoGetMut
DoUninitValuesMut == pc = "uninit" /\ DoValuesMut

NextLit ==
    \/ DoMacroCheck
    \/ MacroNewUninit
    \/ DoMacroAssign
    \/ MacroAssumeInit
    \/ NewUninit
    \/ DoUninitConstGetMut
    \/ DoUninitGetMut
    \/ DoUninitValuesMut
    \/ AssumeInit
    \/ DoFromValues
    \/ DoConstDefault
    \/ DoDefault
    \/ DoIndex

SpecLit == Init /\ [][NextLit]_vars

----------------------------------------------------------------------------
(* SpecRoundTrip: from_values, then writes through get_mut, with the history *)
(* of what was given and what was written                                    *)

RtFromValues ==
    /\ pc = "start"
    /\ \E vs \in [1..N -> Values] :
        /\ FromValues(vs)
        /\ initValues' = vs
        /\ lastWrite' = [i \in 1..N |-> NoWrite]

RtGetMut ==
    \E key \in Keys, v \in Values :
        /\ GetMut(key, v)
        /\ lastWrite' = [lastWrite EXCEPT ![ToNat(index_of(key)) + 1] = v]
        /\ UNCHANGED initValues

NextRoundTrip ==
    \/ RtFromValues
    \/ RtGetMut

SpecRoundTrip == Init /\ [][NextRoundTrip]_vars

----------------------------------------------------------------------------
(* SpecConv: into_usize and key_to_index taken alone, on every platform, for *)
(* every unsigned Discriminant type and for discriminants beyond one byte    *)

\* Discriminants the key types of SpecConv are made of.
DiscSamples == {0, 1, 255, 256}

\* Whether the number d is a value of the type ty.
Fits(d, ty, pw) == ToNat(ToBytes(d, SizeOf(ty, pw))) = d

InitConv ==
    /\ ptrWidth \in PointerWidths
    /\ discTy \in UnsignedTypes
    /\ variants \in SUBSET {d \in DiscSamples : Fits(d, discTy, ptrWidth)}
    /\ pc = "start"
    /\ keys = <<>>
    /\ next = 0
    /\ storage = <<>>
    /\ builtBy = "none"
    /\ initValues = <<>>
    /\ lastWrite = <<>>
    /\ nwrites = <<>>
    /\ ret = Ret("none", <<>>, 0, FALSE)
    /\ conv = NoConv

NotConv == <<KeyType, Literal, History, pc, storage, builtBy, ret>>

\* into_usize::<discTy>(..) does not type-check: discTy has no witness.
ConvReject ==
    /\ conv.state = "none"
    /\ ~ConstIntoUSize(discTy, ptrWidth)
    /\ conv' = [state |-> "rejected", ty |-> discTy, arg |-> <<>>, res |-> <<>>]
    /\ UNCHANGED NotConv

\* into_usize(arg) for a value arg of type discTy
ConvIntoUSize ==
    /\ conv.state = "none"
    /\ ConstIntoUSize(discTy, ptrWidth)
    /\ \E arg \in [1..SizeOf(discTy, ptrWidth) -> ByteSamples] :
        conv' = [state |-> "converted", ty |-> discTy, arg |-> arg,
                 res |-> into_usize(arg, discTy, ptrWidth)]
    /\ UNCHANGED NotConv

\* key_to_index(key) for a value key of the key type
ConvKeyToIndex ==
    /\ conv.state = "none"
    /\ ConstIntoUSize(discTy, ptrWidth)
    /\ \E key \in Keys :
        conv' = [state |-> "indexed", ty |-> discTy, arg |-> key,
                 res |-> index_of(key)]
    /\ UNCHANGED NotConv

NextConv ==
    \/ ConvReject
    \/ ConvIntoUSize
    \/ ConvKeyToIndex

SpecConv == InitConv /\ [][NextConv]_vars

----------------------------------------------------------------------------
(* Properties *)

\* The slot of a key, as an index of the model's sequences.
SlotOf(key) == ToNat(index_of(key)) + 1

\* The key type has a discriminant below N that no named value has.
Sparse == variants # 0..(N - 1)

\* C1 (SpecRoundTrip): a map built by from_values(values) satisfies
\* get(k) = values[index_of(k)] for every key k; after any writes through
\* get_mut, get(k) is the last value written to the slot of k if one was, and
\* still values[index_of(k)] if none was (so, after writes through get_mut(k0)
\* for one key k0, get(k0) is the last value written and every other key still
\* reads what from_values was given).
RoundTrip ==
    pc = "live" =>
        \A key \in Keys :
            get(storage, key) =
                {IF lastWrite[SlotOf(key)] = NoWrite THEN initValues[SlotOf(key)]
                 ELSE lastWrite[SlotOf(key)]}

\* Writes went through get_mut for exactly one key, changing what from_values
\* gave, and another key was never written.
RoundTripWitness ==
    /\ pc = "live"
    /\ ret.op = "get_mut"
    /\ \E k0 \in Keys, k \in Keys :
        /\ SlotOf(k) # SlotOf(k0)
        /\ lastWrite[SlotOf(k0)] \notin {NoWrite, initValues[SlotOf(k0)]}
        /\ \A i \in 1..Len(lastWrite) : i # SlotOf(k0) => lastWrite[i] = NoWrite
        /\ initValues[SlotOf(k)] # lastWrite[SlotOf(k0)]

\* Positions i < j of the key list with the same index.
HasRepeatedIndex(ks) ==
    \E i, j \in 1..Len(ks) : i < j /\ ToNat(index_of(ks[i])) = ToNat(index_of(ks[j]))

\* C2 (SpecLit): has_duplicate_keys returns true exactly when two positions
\* i < j of the key list have the same index, whatever the values; then assoc!
\* panics, with no storage allocated, no slot written and no Assoc produced, and
\* nothing runs after the panic.
DuplicateRejected ==
    /\ [](/\ ret.op = "has_duplicate_keys" => (ret.flag <=> HasRepeatedIndex(keys))
          /\ (pc = "panic_duplicate") <=> HasRepeatedIndex(keys)
          /\ pc = "panic_duplicate" =>
                /\ storage = <<>>
                /\ nwrites = <<>>
                /\ builtBy = "none"
                /\ ret.op = "has_duplicate_keys")
    /\ [][pc # "panic_duplicate"]_vars

\* A literal whose last two keys are the same and whose values differ was rejected.
DuplicateRejectedWitness ==
    /\ pc = "panic_duplicate"
    /\ Len(keys) >= 3
    /\ keys[1] # keys[2]
    /\ keys[Len(keys) - 1] = keys[Len(keys)]
    /\ Len(ret.out) = Len(keys)
    /\ ret.out[Len(keys) - 1] # ret.out[Len(keys)]

\* assoc! reached `map.assume_init()`.
AtFinalize == pc = "macro_assign" /\ next = Len(keys) + 1

\* C3 (SpecLit): when assoc!, given N pairs that passed the duplicate check,
\* reaches assume_init, every one of the N slots has been written exactly once
\* and slot index_of(K_i) holds V_i for every pair i (it is given V_i by the
\* assignment of pair i and written by no other), in whatever order the pairs
\* were listed; the finalized map satisfies map[K_i] = V_i, a value.
LiteralComplete ==
    /\ pc \in {"macro_new", "macro_assign"} => Len(keys) = N
    /\ (pc = "macro_assign" /\ ret.op = "macro_assign") =>
        /\ storage[SlotOf(keys[next - 1])] = ret.out[1]
        /\ \A i \in 1..N : nwrites[i] <= 1
    /\ AtFinalize =>
        /\ Len(storage) = N
        /\ \A i \in 1..N : nwrites[i] = 1
        /\ \A s \in assume_init(storage) :
            \A p \in 1..Len(keys) :
                /\ index(s, keys[p]) = {storage[SlotOf(keys[p])]}
                /\ storage[SlotOf(keys[p])] \in Values

\* C4 (SpecConv): for a key type with discriminants d_0..d_{M-1} and
\* MaxVariants = max(d_i) + 1 = N, key_to_index of the value with discriminant
\* d_i is d_i, so key_to_index is injective over the key type's values and below
\* N for every one of them.
IndexIsDiscriminant ==
    ConstIntoUSize(discTy, ptrWidth) =>
        /\ \A d \in variants :
            /\ ToNat(index_of(EnumValue(d, discTy, ptrWidth))) = d
            /\ ToNat(index_of(EnumValue(d, discTy, ptrWidth))) < N
            /\ Len(index_of(EnumValue(d, discTy, ptrWidth))) = ptrWidth \div 8
        /\ \A k1, k2 \in Keys : index_of(k1) = index_of(k2) => k1 = k2
        /\ conv.state = "indexed" =>
            /\ conv.arg \in Keys
            /\ SameValue(conv.res, conv.arg)
            /\ ToNat(conv.res) < N

\* key_to_index was applied to the value of discriminant 256 of a key type that
\* also has the values of discriminants 0 and 1.
IndexIsDiscriminantWitness ==
    /\ conv.state = "indexed"
    /\ {0, 1, 256} \subseteq variants
    /\ ToNat(conv.res) = 256

\* C5 (Spec): in every state reached through from_values, the defaults and the
\* accessors, len() is N, one plus the greatest discriminant of the key type
\* (0 without any) and not the number of named values, N is the length of the
\* storage, and is_empty() is (N = 0).
LenIsMaxVariants ==
    /\ pc = "live" =>
        /\ Len(storage) = len
        /\ is_empty <=> Len(storage) = 0
    /\ ret.op = "len" =>
        /\ pc = "live"
        /\ ret.n = Len(storage)
        /\ \A d \in variants : d < ret.n
        /\ ret.n > 0 => (ret.n - 1) \in variants
    /\ ret.op = "is_empty" =>
        /\ pc = "live"
        /\ ret.flag <=> (Len(storage) = 0)
        /\ ret.flag <=> (variants = {})

\* len() returned 3 for a key type with the two discriminants 0 and 2.
LenIsMaxVariantsWitness ==
    /\ ret.op = "len"
    /\ variants = {0, 2}
    /\ ret.n = 3

IterOps == {"values", "values_mut", "into_values"}

\* C6 (Spec): values(), values_mut() and into_values() each yield exactly N
\* items, the i-th being the content of slot i (slots no key maps to included);
\* values() leaves the map as it was, so that calling it again yields the same
\* sequence; into_values() consumes the map, and no operation follows it.
IterationOrder ==
    [][/\ pc # "consumed"
       /\ ret'.op \in IterOps =>
            /\ pc = "live"
            /\ Len(ret'.out) = N
            /\ \A i \in 1..N : ret'.out[i] = storage[i]
       /\ ret'.op = "values" => storage' = storage /\ values(storage') = ret'.out
       /\ ret'.op = "into_values" => pc' = "consumed"]_vars

\* values() yielded three different-looking items for a key type without the
\* discriminant 0: the first slot, which no key maps to, came first.
IterationOrderWitness ==
    /\ pc = "live"
    /\ ret.op = "values"
    /\ variants = {1, 2}
    /\ ret.out = <<"b", "a", "a">>

\* C7 (Spec): on every map and for every key k, const_get(k) passes its bounds
\* check and returns what get(k) returns, map[k] is get(k), const_get_mut(k)
\* passes its bounds check and gives the slot get_mut(k) gives, and no accessor
\* or iteration ends in a panic or returns anything but a value of the map.
AccessorsAgree ==
    /\ pc \notin {"panic_bounds", "aborted", "diverged"}
    /\ \A i \in 1..Len(ret.out) : ret.out[i] \in Values
    /\ pc = "live" =>
        \A key \in Keys :
            /\ const_get(storage, key).ok
            /\ get(storage, key) = {const_get(storage, key).val}
            /\ index(storage, key) = {const_get(storage, key).val}
            /\ \A v \in Values :
                /\ const_get_mut(storage, key, v).ok
                /\ get_mut(storage, key, v) =
                    {[out |-> Returned,
                      storage |-> const_get_mut(storage, key, v).storage]}
                /\ index_mut(storage, key, v) =
                    {[out |-> Returned,
                      storage |-> const_get_mut(storage, key, v).storage]}

\* const_get returned "b" from a map of three slots that also holds an "a".
AccessorsAgreeWitness ==
    /\ pc = "live"
    /\ ret.op = "const_get"
    /\ ret.out = <<"b">>
    /\ Len(storage) = 3
    /\ \E i \in 1..3 : storage[i] = "a"

ReadOps == {"get", "const_get", "index", "len", "is_empty", "values"}

\* C8 (Spec): get, const_get, map[k], len, is_empty and values leave every slot
\* as it was, so that every key reads after them what it read before them,
\* whatever reads come in between.
ReadsChangeNothing ==
    [][ret'.op \in ReadOps =>
            /\ storage' = storage
            /\ pc' = pc
            /\ \A key \in Keys :
                /\ get(storage', key) = get(storage, key)
                /\ const_get(storage', key) = const_get(storage, key)]_vars

\* get returned "b" from a map that holds an "a" in another slot.
ReadsChangeNothingWitness ==
    /\ pc = "live"
    /\ ret.op = "get"
    /\ ret.out = <<"b">>
    /\ \E i \in 1..Len(storage) : storage[i] = "a"

\* C9 (SpecConv): on each platform into_usize has a witness, and so an arm,
\* for exactly the unsigned types not wider than usize (u8, u16, usize, and u32
\* from 32 bits, u64 at 64 bits); a wider type is rejected when type-checking;
\* for an accepted type the result is a usize holding the number the argument
\* holds, nothing being cut off.
IntoUSizePreserves ==
    /\ \A ty \in UnsignedTypes :
        ConstIntoUSize(ty, ptrWidth) <=> SizeOf(ty, ptrWidth) <= ptrWidth \div 8
    /\ conv.state = "rejected" => SizeOf(discTy, ptrWidth) > ptrWidth \div 8
    /\ conv.state = "converted" =>
        /\ Len(conv.arg) <= Len(conv.res)
        /\ Len(conv.res) = ptrWidth \div 8
        /\ SameValue(conv.res, conv.arg)

\* A u16 was converted on a 64-bit platform, both its bytes being 255.
IntoUSizePreservesWitness ==
    /\ conv.state = "converted"
    /\ ptrWidth = 64
    /\ discTy = "U16"
    /\ conv.arg = <<255, 255>>
    /\ conv.res = <<255, 255, 0, 0, 0, 0, 0, 0>>

\* The indices of the keys of the literal.
LiteralIndices == {ToNat(index_of(keys[p])) : p \in 1..Len(keys)}

\* C10 as stated (SpecLit): assoc! goes past its duplicate check, and so on to
\* finalization, only with keys whose indices are a permutation of 0..N-1; for
\* a key type whose discriminants do not cover 0..N-1 every literal is rejected,
\* so that a map of such a key type is never finalized with an unwritten slot
\* and a live one was built by from_values or Default.
OnlyThroughFromValuesOrDefault ==
    /\ (pc \in {"macro_new", "macro_assign"} \/ builtBy = "assoc") =>
        /\ pc # "live" => Len(keys) = N /\ LiteralIndices = 0..(N - 1)
        /\ ~Sparse
    /\ (Sparse /\ ret.op = "has_duplicate_keys") => pc = "panic_duplicate"
    /\ (Sparse /\ ret.op = "assume_init") => ret.n = 0
    /\ (Sparse /\ pc = "live") =>
        builtBy \in {"from_values", "const_default", "default"}

\* C10 (SpecLit): assoc! goes past its duplicate check, and so on to
\* finalization, only with keys (as the check is given them) whose indices are a
\* permutation of 0..N-1; for a key type whose discriminants do not cover
\* 0..N-1 every literal is rejected, so that assoc! never finalizes a map of
\* such a key type, with or without an unwritten slot; a live one was built by
\* from_values, ConstDefault or Default, or by the program calling new_uninit
\* and assume_init itself, which alone can leave a slot unwritten.
OnlyPermutationsFinalize ==
    /\ (pc \in {"macro_new", "macro_assign"} \/ builtBy = "assoc") =>
        /\ pc # "live" => Len(keys) = N /\ LiteralIndices = 0..(N - 1)
        /\ ~Sparse
    /\ (Sparse /\ ret.op = "has_duplicate_keys") => pc = "panic_duplicate"
    /\ (Sparse /\ ret.op = "assume_init") => builtBy = "manual"
    /\ (Sparse /\ pc = "live") =>
        builtBy \in {"from_values", "const_default", "default", "manual"}

\* A literal of three keys for the key type with discriminants 0 and 2 only,
\* both of them among its keys, was rejected.
OnlyPermutationsFinalizeWitness ==
    /\ pc = "panic_duplicate"
    /\ variants = {0, 2}
    /\ Len(keys) = 3
    /\ LiteralIndices = {0, 2}

====
